---- MODULE Spec2Model ----
(***************************************************************************)
(* Abundance reconciliation and merge pipeline of NanoCLUST                *)
(* (src/templates/get_abundance.py): choose_classification,                *)
(* get_abundance_values, merge_abundance with the taxonomy resolvers       *)
(* get_taxname_from_dmp / get_taxname, and the rank-level driver.          *)
(*                                                                         *)
(* Python slices are 0-based and half open; sequences here are 1-based, so *)
(* the slice [a:b] of the source is Slice(s, a, b) below.                  *)
(* Floating point values are modelled as exact rationals (num/den) plus    *)
(* NaN, so "sums to 100" is exact where the source is exact up to rounding.*)
(***************************************************************************)
EXTENDS Integers, Sequences, FiniteSets, TLC

(***************************************************************************)
(* Bounds of the model                                                     *)
(***************************************************************************)
MaxSamples == 3
MaxRows == 2

(***************************************************************************)
(* Cells of a table: NaN (missing), a number, or a string                  *)
(***************************************************************************)
NaN == [t |-> "nan", n |-> 0, s |-> ""]
Num(x) == [t |-> "num", n |-> x, s |-> ""]
Str(x) == [t |-> "str", n |-> 0, s |-> x]
notna(c) == c.t # "nan"
IsStr(c) == c.t = "str"

(***************************************************************************)
(* Float values of the numeric columns: NaN or the rational num/den        *)
(***************************************************************************)
RECURSIVE Gcd(_, _)
Gcd(a, b) == IF b = 0 THEN a ELSE Gcd(b, a % b)

NaNVal == [nan |-> TRUE, num |-> 0, den |-> 1]
Rat(a, b) == LET g == Gcd(a, b) IN [nan |-> FALSE, num |-> a \div g, den |-> b \div g]
Zero == [nan |-> FALSE, num |-> 0, den |-> 1]
IntVal(x) == [nan |-> FALSE, num |-> x, den |-> 1]
\* float addition: NaN is absorbing
FAdd(x, y) == IF x.nan \/ y.nan THEN NaNVal
              ELSE Rat(x.num * y.den + y.num * x.den, x.den * y.den)
\* x > y on floats (any comparison with NaN is false)
FGt(x, y) == ~x.nan /\ ~y.nan /\ x.num * y.den > y.num * x.den
FEq(x, y) == ~x.nan /\ ~y.nan /\ x.num * y.den = y.num * x.den
CellVal(c) == IF c.t = "num" THEN IntVal(c.n) ELSE NaNVal

(***************************************************************************)
(* Small helpers standing for Python / numpy operations                    *)
(***************************************************************************)
Min(a, b) == IF a < b THEN a ELSE b
\* s[a:b] of Python
Slice(s, a, b) == SubSeq(s, a + 1, Min(b, Len(s)))
\* s[a:] of Python
SliceFrom(s, a) == SubSeq(s, a + 1, Len(s))
RECURSIVE SumNotna(_)
\* sum(row.notna()[...]) : the number of non-missing cells
SumNotna(s) == IF s = <<>> THEN 0
               ELSE (IF notna(Head(s)) THEN 1 ELSE 0) + SumNotna(Tail(s))
RECURSIVE MaxLen(_)
MaxLen(ss) == IF ss = <<>> THEN 0
              ELSE LET m == MaxLen(Tail(ss)) IN
                   IF Len(Head(ss)) > m THEN Len(Head(ss)) ELSE m

(***************************************************************************)
(* The 12-column output schema of choose_classification (line 90) and the  *)
(* input column that holds class_level.  Columns 0..11 are emitted as the  *)
(* kraken2 record, 13..19 as seqmatch, 20..27 as blast; column 12 is the   *)
(* only one no slice reads, and a table needs more than 13 columns to be   *)
(* reconciled: class_level is the 13th column.                             *)
(***************************************************************************)
OutCols == <<"reads_in_cluster", "used_for_consensus", "reads_after_corr", "draft_id",
             "classifier_name", "taxid", "stat", "name", "species", "genus",
             "family", "order">>
NOutCols == Len(OutCols)
BaselineCols == 13
ClassLevelPos == 13
ColPos(name) == CHOOSE i \in 1..NOutCols : OutCols[i] = name

(***************************************************************************)
(* classification_score: a Python dict, i.e. key/value pairs kept in       *)
(* insertion order; assigning an existing key keeps its place.             *)
(***************************************************************************)
DictHas(d, k) == \E i \in 1..Len(d) : d[i].k = k
DictSet(d, k, v) ==
    IF DictHas(d, k)
    THEN [i \in 1..Len(d) |-> IF d[i].k = k THEN [k |-> k, v |-> v] ELSE d[i]]
    ELSE Append(d, [k |-> k, v |-> v])
\* max(d, key=d.get): the first key, in iteration order, with the largest value
DictMaxKeyLastMutant(d) ==
    LET i == CHOOSE i \in 1..Len(d) :
                 /\ \A j \in 1..Len(d) : d[j].v <= d[i].v
                 /\ \A j \in (i+1)..Len(d) : d[j].v < d[i].v
    IN d[i].k
DictMaxKey(d) ==
    LET i == CHOOSE i \in 1..Len(d) :
                 /\ \A j \in 1..Len(d) : d[j].v <= d[i].v
                 /\ \A j \in 1..(i-1) : d[j].v < d[i].v
    IN d[i].k

(***************************************************************************)
(* choose_classification, lines 65-96                                      *)
(***************************************************************************)
\* lines 75-77: the three scores of one row, assigned in this order
ScoreRow(d, row) ==
    LET d1 == DictSet(d, "kraken2", SumNotna(Slice(row, 8, 12)))
        d2 == DictSet(d1, "blast", SumNotna(SliceFrom(row, 24)))
    IN DictSet(d2, "seqmatch", SumNotna(Slice(row, 16, 20)))

\* lines 80-85: the fields emitted for a choice
Emit(row, choice) ==
    IF choice = "kraken2" THEN Slice(row, 0, 12)
    ELSE IF choice = "seqmatch" THEN Slice(row, 0, 4) \o Slice(row, 13, 20)
    ELSE Slice(row, 0, 4) \o Slice(row, 20, 28)

\* lines 70-85: the loop over the rows; acc = [d, frame, choices] holds the
\* dict (created once, before the loop), the chosen_frame and, per row, the
\* branch taken
AddChoice(acc, d, fields, choice) ==
    [d |-> d, frame |-> Append(acc.frame, fields), choices |-> Append(acc.choices, choice)]
\* lines 78-85
Reconcile(acc, row, d, choice) == AddChoice(acc, d, Emit(row, choice), choice)
\* lines 72-85: one row
ChooseRow(acc, row) ==
    IF row[ClassLevelPos] = Str("S")
    THEN AddChoice(acc, acc.d, Slice(row, 0, 12), "S")
    ELSE Reconcile(acc, row, ScoreRow(acc.d, row), DictMaxKey(ScoreRow(acc.d, row)))
RECURSIVE ChooseLoop(_, _)
ChooseLoop(rows, acc) ==
    IF rows = <<>> THEN acc ELSE ChooseLoop(Tail(rows), ChooseRow(acc, Head(rows)))

\* line 90: pd.DataFrame(chosen_frame, columns=[12 names]).  Short lists are
\* padded with NaN up to the longest one; the construction raises ValueError
\* when the longest list does not have as many fields as there are names.
PadRow(r, n) == r \o [i \in 1..(n - Len(r)) |-> NaN]
FrameOk(frame) == frame = <<>> \/ MaxLen(frame) = NOutCols
ChosenFrame(acc) ==
    [ok |-> FrameOk(acc.frame),
     err |-> IF FrameOk(acc.frame) THEN "" ELSE "ValueError",
     frame |-> acc.frame,
     choices |-> acc.choices,
     rows |-> IF FrameOk(acc.frame)
              THEN [i \in 1..Len(acc.frame) |-> PadRow(acc.frame[i], NOutCols)]
              ELSE <<>>]
\* line 68: rows are looked at only when the table has more than 13 columns
choose_classification(df) ==
    ChosenFrame(IF df.ncols > BaselineCols
                THEN ChooseLoop(df.rows, [d |-> <<>>, frame |-> <<>>, choices |-> <<>>])
                ELSE [d |-> <<>>, frame |-> <<>>, choices |-> <<>>])

(***************************************************************************)
(* get_abundance_values, lines 46-63.  A table is [ncols, rows]; column 0  *)
(* of the input is reads_in_cluster (the first field of a ClusterRecord).  *)
(***************************************************************************)
RECURSIVE ReadsTotal(_)
\* line 51: total = sum(data1['reads_in_cluster'])
ReadsTotal(rows) == IF rows = <<>> THEN 0 ELSE Head(rows)[1].n + ReadsTotal(Tail(rows))

\* iterrows() yields numpy floats when every column of the frame is numeric
\* and Python objects as soon as one column holds strings
AllNumeric(rows) == \A i \in 1..Len(rows) : \A j \in 1..Len(rows[i]) : ~IsStr(rows[i][j])

\* line 57: row['reads_in_cluster'] / total * 100.  With total = 0 a numpy
\* float gives nan (0/0) and a Python number raises ZeroDivisionError.
RelAbundance(reads, total) ==
    IF total = 0 THEN NaNVal ELSE Rat(reads * 100, total)
DivRaises(total, cc) == cc.ok /\ cc.rows # <<>> /\ total = 0 /\ ~AllNumeric(cc.rows)

\* line 60: the frame appended to dfs
Entries(total, data) ==
    [i \in 1..Len(data) |->
        [taxid |-> data[i][ColPos("taxid")],
         rel_abundance |-> RelAbundance(data[i][ColPos("reads_in_cluster")].n, total),
         reads |-> CellVal(data[i][ColPos("reads_in_cluster")])]]

\* lines 51-61 for one sample, given total and the reconciled table cc
SampleResult(total, cc) ==
    [ok |-> cc.ok /\ ~DivRaises(total, cc),
     err |-> IF ~cc.ok THEN cc.err
             ELSE IF DivRaises(total, cc) THEN "ZeroDivisionError" ELSE "",
     total |-> total,
     choices |-> cc.choices,
     frame |-> cc.frame,
     data |-> cc.rows,
     df |-> IF cc.ok /\ ~DivRaises(total, cc) THEN Entries(total, cc.rows) ELSE <<>>]
SampleValues(df) == SampleResult(ReadsTotal(df.rows), choose_classification(df))

\* lines 47-63: the loop over (name, path); an exception ends it.
\* acc = [ok, err, dfs, data, nfiles, per]
LoopStep(acc, r) ==
    IF r.ok
    THEN [ok |-> TRUE, err |-> "", dfs |-> Append(acc.dfs, r.df), data |-> r.data,
          nfiles |-> acc.nfiles + 1, per |-> Append(acc.per, r)]
    ELSE [ok |-> FALSE, err |-> r.err, dfs |-> acc.dfs, data |-> acc.data,
          nfiles |-> acc.nfiles, per |-> Append(acc.per, r)]
RECURSIVE ValuesLoop(_, _)
ValuesLoop(tabs, acc) ==
    IF tabs = <<>> \/ ~acc.ok THEN acc
    ELSE ValuesLoop(Tail(tabs), LoopStep(acc, SampleValues(Head(tabs))))

get_abundance_values(tabs) ==
    ValuesLoop(tabs, [ok |-> TRUE, err |-> "", dfs |-> <<>>, data |-> <<>>,
                      nfiles |-> 0, per |-> <<>>])

(***************************************************************************)
(* merge_abundance, line 99: reduce(pd.merge(..., on='taxid', how='outer') *)
(* .fillna(0), dfs).  A frame is [cols, rows]: cols are the names of the   *)
(* value columns, a row is [taxid, v] with v aligned with cols.            *)
(***************************************************************************)
Frame(df) == [cols |-> <<"rel_abundance", "reads">>,
              rows |-> [i \in 1..Len(df) |->
                           [taxid |-> df[i].taxid,
                            v |-> <<df[i].rel_abundance, df[i].reads>>]]]

InSeq(x, s) == \E i \in 1..Len(s) : s[i] = x
\* the suffixes ('_x', '_y') pandas gives to the value columns both sides have
Suffixed(cols, other, suffix) ==
    [i \in 1..Len(cols) |-> IF InSeq(cols[i], other) THEN cols[i] \o suffix ELSE cols[i]]
\* a suffix made a column name collide with another column of the same side
NewDups(cols, ren) ==
    \E i \in 1..Len(cols) :
        /\ \E j \in 1..(i-1) : ren[j] = ren[i]
        /\ \A j \in 1..(i-1) : cols[j] # cols[i]
SuffixDups(cols, other, suffix) == NewDups(cols, Suffixed(cols, other, suffix))

\* join keys: NaN matches NaN; the keys of an outer join come out sorted,
\* NaN last
KeyLess(a, b) == a.t = "num" /\ (b.t # "num" \/ a.n < b.n)
RECURSIVE SortKeys(_)
SortKeys(S) ==
    IF S = {} THEN <<>>
    ELSE LET m == CHOOSE x \in S : \A y \in S \ {x} : KeyLess(x, y)
         IN <<m>> \o SortKeys(S \ {m})
KeysOf(rows) == {rows[i].taxid : i \in 1..Len(rows)}
RowsWith(rows, key) == SelectSeq(rows, LAMBDA r : r.taxid = key)
NaNs(n) == [i \in 1..n |-> NaNVal]
RECURSIVE Concat(_)
Concat(ss) == IF ss = <<>> THEN <<>> ELSE Head(ss) \o Concat(Tail(ss))

\* the rows of the outer join for one key, l and r being the rows of the
\* left and of the right frame with that key
Pairs(key, l, r) ==
    Concat([i \in 1..Len(l) |->
               [j \in 1..Len(r) |-> [taxid |-> key, v |-> l[i].v \o r[j].v]]])
JoinRows(left, right, key, l, r) ==
    IF r = <<>>
    THEN [i \in 1..Len(l) |-> [taxid |-> key, v |-> l[i].v \o NaNs(Len(right.cols))]]
    ELSE IF l = <<>>
    THEN [j \in 1..Len(r) |-> [taxid |-> key, v |-> NaNs(Len(left.cols)) \o r[j].v]]
    ELSE Pairs(key, l, r)
JoinKey(left, right, key) ==
    JoinRows(left, right, key, RowsWith(left.rows, key), RowsWith(right.rows, key))

\* pd.merge(left, right, on='taxid', how='outer')
MergeOn(left, right, keys) ==
    [cols |-> Suffixed(left.cols, right.cols, "_x") \o Suffixed(right.cols, left.cols, "_y"),
     rows |-> Concat([k \in 1..Len(keys) |-> JoinKey(left, right, keys[k])])]
OuterMerge(left, right) ==
    MergeOn(left, right, SortKeys(KeysOf(left.rows) \cup KeysOf(right.rows)))

\* .fillna(0): every missing value of every column, the key column included
FillVal(x) == IF x.nan THEN Zero ELSE x
FillKey(c) == IF c.t = "nan" THEN Num(0) ELSE c
fillnaNoneMutant(f) == f
fillna(f) ==
    [cols |-> f.cols,
     rows |-> [i \in 1..Len(f.rows) |->
                  [taxid |-> FillKey(f.rows[i].taxid),
                   v |-> [j \in 1..Len(f.rows[i].v) |-> FillVal(f.rows[i].v[j])]]]]

\* reduce(...) from the left; strict: this pandas raises MergeError when the
\* suffixes make duplicate columns (older versions only warn)
RECURSIVE Reduce(_, _, _)
Reduce(acc, rest, strict) ==
    IF rest = <<>> THEN [ok |-> TRUE, err |-> "", df |-> acc]
    ELSE IF strict /\ (SuffixDups(acc.cols, Head(rest).cols, "_x")
                       \/ SuffixDups(Head(rest).cols, acc.cols, "_y"))
    THEN [ok |-> FALSE, err |-> "MergeError", df |-> acc]
    ELSE Reduce(fillna(OuterMerge(acc, Head(rest))), Tail(rest), strict)

\* some merge of the reduction makes duplicate columns
RECURSIVE MakesDups(_, _)
MakesDups(acc, rest) ==
    /\ rest # <<>>
    /\ \/ SuffixDups(acc.cols, Head(rest).cols, "_x")
       \/ SuffixDups(Head(rest).cols, acc.cols, "_y")
       \/ MakesDups(fillna(OuterMerge(acc, Head(rest))), Tail(rest))

(***************************************************************************)
(* Taxonomy resolvers                                                      *)
(***************************************************************************)
\* get_taxname_from_dmp, lines 30-43; data is the reconciled table of the
\* last sample (12 columns, no "sciname" column).  ok = FALSE: it raises.
DmpTag(tax_level) ==
    CASE tax_level = "S" -> "species" [] tax_level = "G" -> "genus"
      [] tax_level = "F" -> "family" [] tax_level = "O" -> "order"
\* lines 37-41 on sel, the rows of data with the taxid
DmpLookup(sel, tax_level) ==
    IF sel = <<>> THEN [ok |-> FALSE, name |-> "", err |-> "IndexError"]
    ELSE IF IsStr(sel[1][ColPos(DmpTag(tax_level))])
    THEN [ok |-> TRUE, name |-> sel[1][ColPos(DmpTag(tax_level))].s, err |-> ""]
    ELSE IF IsStr(sel[1][ColPos("name")])
    THEN [ok |-> TRUE, name |-> sel[1][ColPos("name")].s, err |-> ""]
    ELSE [ok |-> FALSE, name |-> "", err |-> "KeyError"]
get_taxname_from_dmp(data, tax_id, tax_level) ==
    IF tax_id.t = "nan" THEN [ok |-> TRUE, name |-> "unclassified", err |-> ""]
    ELSE DmpLookup(SelectSeq(data, LAMBDA r : r[ColPos("taxid")] = tax_id), tax_level)

\* The remote taxonomy service: what it answers for an id.  found = FALSE
\* stands for an answer without element 0 or without the field (malformed,
\* empty list, missing fields); an empty rank name is the service's way of
\* saying the taxon has no such rank.
RemoteRecord(id) ==
    CASE id = 1 -> [found |-> TRUE, S |-> "Sa", G |-> "Ga", F |-> "Fa", O |-> "Oa",
                    taxon_name |-> "Ta"]
      [] id = 2 -> [found |-> TRUE, S |-> "Sb", G |-> "Ga", F |-> "", O |-> "",
                    taxon_name |-> "Tb"]
      [] OTHER -> [found |-> FALSE, S |-> "", G |-> "", F |-> "", O |-> "",
                   taxon_name |-> ""]
RankField(rec, tax_level) ==
    CASE tax_level = "S" -> rec.S [] tax_level = "G" -> rec.G
      [] tax_level = "F" -> rec.F [] tax_level = "O" -> rec.O

\* get_taxname, lines 10-28.  net = "fail": requests.get raises (it is
\* outside the try block); ok = FALSE: get_taxname raises.
RequestId(tax_id) == IF tax_id.t = "nan" THEN 1 ELSE tax_id.n
\* lines 21-26 on the record the service answered for id
ParseAnswer(id, rec, tax_level) ==
    IF ~rec.found THEN [ok |-> TRUE, name |-> ToString(id), err |-> ""]
    ELSE IF RankField(rec, tax_level) = ""
    THEN [ok |-> TRUE, name |-> rec.taxon_name, err |-> ""]
    ELSE [ok |-> TRUE, name |-> RankField(rec, tax_level), err |-> ""]
get_taxname(tax_id, tax_level, net) ==
    IF net = "fail" THEN [ok |-> FALSE, name |-> "", err |-> "ConnectionError"]
    ELSE ParseAnswer(RequestId(tax_id), RemoteRecord(RequestId(tax_id)), tax_level)

(***************************************************************************)
(* merge_abundance, lines 106-110: rename, group, sort                     *)
(***************************************************************************)
\* Python's order on the strings that occur as names
NameOrder == <<"0", "1", "2", "3", "4", "Fa", "Ga", "Gb", "Na", "Nb", "Nc", "Oa",
               "Sa", "Sb", "Sc", "Ta", "Tb", "unclassified">>
NameIdx(s) == CHOOSE i \in 1..Len(NameOrder) : NameOrder[i] = s
RECURSIVE SortNames(_)
SortNames(S) ==
    IF S = {} THEN <<>>
    ELSE LET m == CHOOSE x \in S : \A y \in S : NameIdx(x) <= NameIdx(y)
         IN <<m>> \o SortNames(S \ {m})

\* sum of one column over rows, NaN skipped (pandas sum, skipna)
RECURSIVE ColSum(_, _)
ColSum(rows, j) ==
    IF rows = <<>> THEN Zero
    ELSE FAdd(FillVal(Head(rows).v[j]), ColSum(Tail(rows), j))

\* lines 106-108: df_final["taxid"] = all_tax; groupby(["taxid"]).sum()
Renamed(f, names) == [i \in 1..Len(f.rows) |-> [taxid |-> names[i], v |-> f.rows[i].v]]
GroupRow(named, ncols, key) ==
    [taxid |-> key,
     v |-> [j \in 1..ncols |-> ColSum(SelectSeq(named, LAMBDA r : r.taxid = key), j)]]
GroupBy(cols, named, keys) ==
    [cols |-> cols, rows |-> [k \in 1..Len(keys) |-> GroupRow(named, Len(cols), keys[k])]]
GroupSum(f, names) ==
    GroupBy(f.cols, Renamed(f, names), SortNames({names[i] : i \in 1..Len(names)}))

\* line 109: sort_values(by='rel_abundance', ascending=False).  The column
\* must exist exactly once.  The default sort kind is quicksort, which is
\* not stable: any descending order (NaN last) is a possible result.
ByCols(f) == {j \in 1..Len(f.cols) : f.cols[j] = "rel_abundance"}
SortErr(f) == IF ByCols(f) = {} THEN "KeyError: rel_abundance"
              ELSE IF Cardinality(ByCols(f)) > 1 THEN "ValueError" ELSE ""
\* x may come before y: y is NaN, or neither is and x >= y
MayPrecede(x, y) == y.nan \/ (~x.nan /\ ~FGt(y, x))
\* every order of the row indices I in which the column j descends
RECURSIVE Orders(_, _, _)
Orders(rows, j, I) ==
    IF I = {} THEN {<<>>}
    ELSE UNION {{<<m>> \o o : o \in Orders(rows, j, I \ {m})} :
                   m \in {i \in I : \A k \in I : MayPrecede(rows[i].v[j], rows[k].v[j])}}
SortResults(f) ==
    {[cols |-> f.cols, rows |-> [i \in 1..Len(o) |-> f.rows[o[i]]]] :
        o \in Orders(f.rows, CHOOSE j \in ByCols(f) : TRUE, 1..Len(f.rows))}

(***************************************************************************)
(* Input tables.  A row is built from a descriptor                         *)
(*   [cl, k, reads, tax, nm, txt]:                                         *)
(* class_level, the numbers k[1], k[2], k[3] of non-missing rank fields of *)
(* kraken2 (columns 8..11), seqmatch (16..19) and blast (24..27), the      *)
(* reads, the taxid (0: missing), whether the name column is filled, and   *)
(* whether the table holds text at all.                                    *)
(***************************************************************************)
RankNames(tax) ==
    CASE tax = 1 -> <<"Sa", "Ga", "Fa", "Oa">>
      [] tax = 2 -> <<"Sb", "Ga", "Fa", "Oa">>
      [] OTHER -> <<"Sc", "Gb", "Fa", "Oa">>
TaxonName(tax) == CASE tax = 1 -> "Na" [] tax = 2 -> "Nb" [] OTHER -> "Nc"
TaxCell(tax) == IF tax = 0 THEN NaN ELSE Num(tax)
RankCells(tax, k) == [i \in 1..4 |-> IF i <= k THEN Str(RankNames(tax)[i]) ELSE NaN]
NameCell(d) == IF d.nm THEN Str(TaxonName(d.tax)) ELSE NaN
FullRow(d) ==
    <<Num(d.reads), Num(d.reads), Num(d.reads), Str("draft"),
      Str("kraken2"), TaxCell(d.tax), Num(1), NameCell(d)>> \o RankCells(d.tax, d.k[1])
    \o <<Str(d.cl)>>
    \o <<Str("seqmatch"), TaxCell(d.tax), Num(1)>> \o RankCells(d.tax, d.k[2])
    \o <<Str("blast"), TaxCell(d.tax), Num(1), NameCell(d)>> \o RankCells(d.tax, d.k[3])
NoText(row) == [i \in 1..Len(row) |-> IF IsStr(row[i]) THEN NaN ELSE row[i]]
MkRow(ncols, d) == SubSeq(IF d.txt THEN FullRow(d) ELSE NoText(FullRow(d)), 1, ncols)
MkTable(ncols, ds) == [ncols |-> ncols, rows |-> [i \in 1..Len(ds) |-> MkRow(ncols, ds[i])]]
D(cl, k, reads, tax, nm) ==
    [cl |-> cl, k |-> k, reads |-> reads, tax |-> tax, nm |-> nm, txt |-> TRUE]

\* the samples of the pipeline runs: row patterns, cut to 1..MaxRows rows
Patterns ==
    << <<D("S", <<4, 0, 0>>, 2, 1, TRUE), D("S", <<4, 0, 0>>, 1, 1, TRUE)>>,
       <<D("G", <<2, 1, 0>>, 1, 2, TRUE), D("S", <<4, 0, 0>>, 1, 1, TRUE)>>,
       <<D("S", <<0, 0, 0>>, 1, 0, FALSE), D("S", <<0, 0, 0>>, 3, 2, FALSE)>> >>
PatRows(p, n) == [j \in 1..n |-> Patterns[p][((j - 1) % Len(Patterns[p])) + 1]]
SpecialTables ==
    { MkTable(5, <<D("S", <<4, 0, 0>>, 2, 1, TRUE)>>),
      MkTable(12, <<D("S", <<4, 0, 0>>, 2, 1, TRUE)>>),
      MkTable(28, <<D("G", <<0, 4, 0>>, 1, 1, TRUE)>>),
      MkTable(28, <<D("S", <<4, 0, 0>>, 0, 1, TRUE)>>) }
PipelineTables ==
    {MkTable(28, PatRows(p, n)) : p \in 1..Len(Patterns), n \in 1..MaxRows}
    \cup SpecialTables
SeqsUpTo(S, n) == UNION {[1..m -> S] : m \in 1..n}

\* the samples of the single-sample runs: a few leading rows, then one row
\* with any class_level and any three counts
LeadRows ==
    { D("S", <<4, 0, 0>>, 1, 1, TRUE), D("G", <<0, 0, 4>>, 1, 2, TRUE),
      D("G", <<1, 1, 1>>, 0, 1, TRUE) }
LastRows ==
    { D(cl, <<a, b, c>>, reads, 1, TRUE) :
        cl \in {"S", "G"}, a \in 0..4, b \in 0..4, c \in 0..4, reads \in {0, 1} }
ValueTables ==
    { MkTable(nc, lead \o <<last>>) :
        nc \in {20, 28}, lead \in {<<>>} \cup SeqsUpTo(LeadRows, MaxRows - 1),
        last \in LastRows }
    \cup { MkTable(nc, <<D("S", <<4, 0, 0>>, 2, 1, TRUE)>>) : nc \in {5, 12, 13, 14} }
    \cup { MkTable(28, <<>>),
           MkTable(28, <<[D("G", <<0, 0, 0>>, 0, 1, FALSE) EXCEPT !.txt = FALSE]>>) }

(***************************************************************************)
(* State                                                                   *)
(***************************************************************************)
VARIABLES
    tables,       \* the input: one table per (name, path), in order
    ri,           \* the driver's position: index of the next get_abundance call
    pc,           \* "values", "join", "resolve", "done" or "crashed"
    err,          \* the exception that ended the run, "" if none
    vals,         \* per sample: what get_abundance_values computed
    dfs, data,    \* the values get_abundance_values returns
    df_final,     \* merge_abundance: the joined table
    all_tax,      \* merge_abundance: the names resolved so far
    remote,       \* the ids requested from the remote service in this merge
    out,          \* the table merge_abundance returned last
    written       \* the files written so far, in order

vars == <<tables, ri, pc, err, vals, dfs, data, df_final, all_tax, remote, out, written>>

\* the sequence species, genus, family, order
RankOrderSpecMutant == <<"S", "G", "F", "O">>
\* lines 124-127
RankOrder == <<"G", "S", "O", "F">>
NoFrame == [cols |-> <<>>, rows |-> <<>>]

InitWith(tabs) ==
    /\ tables = tabs
    /\ ri = 1
    /\ pc = "values"
    /\ err = ""
    /\ vals = <<>>
    /\ dfs = <<>>
    /\ data = <<>>
    /\ df_final = NoFrame
    /\ all_tax = <<>>
    /\ remote = <<>>
    /\ out = NoFrame
    /\ written = <<>>

Init == \E tabs \in SeqsUpTo(PipelineTables, MaxSamples) : InitWith(tabs)
InitValues == \E t \in ValueTables : InitWith(<<t>>)

(***************************************************************************)
(* Actions                                                                 *)
(***************************************************************************)
Level == RankOrder[ri]
SideFiles(n) == [i \in 1..n |-> [file |-> "nanoclust_out", sample |-> i, level |-> ""]]

\* get_abundance, lines 112-117: the call of get_abundance_values
ValuesReturn(r) ==
    /\ vals' = r.per
    /\ dfs' = r.dfs
    /\ data' = r.data
    /\ written' = written \o SideFiles(r.nfiles)
    /\ pc' = IF r.ok THEN "join" ELSE "crashed"
    /\ err' = r.err
GetAbundanceValues ==
    /\ pc = "values"
    /\ ri <= Len(RankOrder)
    /\ ValuesReturn(get_abundance_values(tables))
    /\ df_final' = NoFrame
    /\ all_tax' = <<>>
    /\ remote' = <<>>
    /\ out' = NoFrame
    /\ UNCHANGED <<tables, ri>>

\* merge_abundance, line 99
Frames == [i \in 1..Len(dfs) |-> Frame(dfs[i])]
JoinReturn(r) ==
    /\ df_final' = r.df
    /\ pc' = IF r.ok THEN "resolve" ELSE "crashed"
    /\ err' = r.err
Join ==
    /\ pc = "join"
    /\ \E strict \in (IF MakesDups(Frames[1], Tail(Frames)) THEN BOOLEAN ELSE {FALSE}) :
          JoinReturn(Reduce(Frames[1], Tail(Frames), strict))
    /\ UNCHANGED <<tables, ri, vals, dfs, data, all_tax, remote, out, written>>

\* merge_abundance, lines 101-103: the next row, resolved from the local table
NextTaxid == df_final.rows[Len(all_tax) + 1].taxid
LocalName == get_taxname_from_dmp(data, NextTaxid, Level)
ResolveLocal ==
    /\ pc = "resolve"
    /\ Len(all_tax) < Len(df_final.rows)
    /\ LocalName.ok
    /\ all_tax' = Append(all_tax, LocalName.name)
    /\ UNCHANGED <<tables, ri, pc, err, vals, dfs, data, df_final, remote, out, written>>

\* merge_abundance, lines 104-105: the local lookup raised, get_taxname is
\* called in the except block; what it raises ends the run
RemoteReturn(r) ==
    /\ all_tax' = IF r.ok THEN Append(all_tax, r.name) ELSE all_tax
    /\ pc' = IF r.ok THEN "resolve" ELSE "crashed"
    /\ err' = r.err
ResolveRemote ==
    /\ pc = "resolve"
    /\ Len(all_tax) < Len(df_final.rows)
    /\ ~LocalName.ok
    /\ remote' = Append(remote, RequestId(NextTaxid))
    /\ \E net \in {"ok", "fail"} : RemoteReturn(get_taxname(NextTaxid, Level, net))
    /\ UNCHANGED <<tables, ri, vals, dfs, data, df_final, out, written>>

\* merge_abundance, lines 106-110, and get_abundance, line 119
SortAndWrite(grp) ==
    IF SortErr(grp) # ""
    THEN /\ pc' = "crashed"
         /\ err' = SortErr(grp)
         /\ UNCHANGED <<ri, out, written>>
    ELSE \E res \in SortResults(grp) :
         /\ out' = res
         /\ written' = Append(written,
                          [file |-> "rel_abundance", sample |-> 1, level |-> Level])
         /\ ri' = ri + 1
         /\ pc' = IF ri = Len(RankOrder) THEN "done" ELSE "values"
         /\ err' = ""
GroupSort ==
    /\ pc = "resolve"
    /\ Len(all_tax) = Len(df_final.rows)
    /\ SortAndWrite(GroupSum(df_final, all_tax))
    /\ UNCHANGED <<tables, vals, dfs, data, df_final, all_tax, remote>>

Next == GetAbundanceValues \/ Join \/ ResolveLocal \/ ResolveRemote \/ GroupSort
Spec == Init /\ [][Next]_vars

\* one call of get_abundance_values on one sample
NextValues == GetAbundanceValues
SpecValues == InitValues /\ [][NextValues]_vars

(***************************************************************************)
(* Claims                                                                  *)
(***************************************************************************)
\* merge_abundance has returned its table (and no later call has started)
Returned == out # NoFrame
\* the joined table of two or more samples is complete
Joined == Len(dfs) >= 2 /\ Len(df_final.cols) = 2 * Len(dfs)
\* the value columns of sample s in the joined and in the returned table
RelCol(s) == 2 * s - 1
ReadsCol(s) == 2 * s
RECURSIVE SumVals(_)
SumVals(vs) == IF vs = <<>> THEN Zero ELSE FAdd(Head(vs), SumVals(Tail(vs)))

\* C1: taxonomy resolution never raises and every resolved name is a
\* non-empty string, also when the local lookup and the remote request fail.
C1_ResolutionNeverRaises ==
    /\ ~(pc = "crashed" /\ err = "ConnectionError")
    /\ \A i \in 1..Len(all_tax) : all_tax[i] # ""

\* C2: a cluster whose taxid is null is named "unclassified", for any number
\* of samples, and no remote lookup is issued for it.  (No input taxid is 0:
\* a key 0 in the joined table is a null taxid that fillna replaced.)
IsNullKey(c) == c.t = "nan" \/ c = Num(0)
NullInput == \E s \in 1..Len(dfs) : \E i \in 1..Len(dfs[s]) : dfs[s][i].taxid.t = "nan"
C2_NullIsUnclassified ==
    /\ \A i \in 1..Len(all_tax) :
          IsNullKey(df_final.rows[i].taxid) => all_tax[i] = "unclassified"
    /\ \A i \in 1..Len(remote) : remote[i] # 0
    /\ (Returned /\ NullInput) =>
          \E k \in 1..Len(out.rows) : out.rows[k].taxid = "unclassified"

\* C3: for a sample with nonzero total reads, whatever its column layout,
\* get_abundance_values emits one entry per input record, the reads of the
\* entries sum to the total and the rel_abundance values sum to 100.
C3_SumsTo100 ==
    \A s \in 1..Len(vals) :
        vals[s].total > 0 =>
            /\ vals[s].ok
            /\ Len(vals[s].df) = Len(tables[s].rows)
            /\ SumVals([i \in 1..Len(vals[s].df) |-> vals[s].df[i].reads])
                   = IntVal(vals[s].total)
            /\ SumVals([i \in 1..Len(vals[s].df) |-> vals[s].df[i].rel_abundance])
                   = IntVal(100)

\* C4: for every row whose class_level is not "S", first or not, the choice
\* is the classifier with the highest count of non-missing fields (kraken2
\* columns 8..11, blast 24.., seqmatch 16..19), the first of kraken2, blast,
\* seqmatch on equal counts; a kraken2 choice emits columns [0, 12).
Classifiers == <<"kraken2", "blast", "seqmatch">>
Filled(row, S) == Cardinality({j \in S : j <= Len(row) /\ row[j].t # "nan"})
CountOf(row, c) ==
    CASE c = 1 -> Filled(row, 9..12)
      [] c = 2 -> Filled(row, 25..Len(row))
      [] c = 3 -> Filled(row, 17..20)
Winner(row) ==
    Classifiers[CHOOSE c \in 1..3 :
                   \A o \in 1..3 : \/ CountOf(row, c) > CountOf(row, o)
                                   \/ (CountOf(row, c) = CountOf(row, o) /\ c <= o)]
C4_TieBreak ==
    \A s \in 1..Len(vals) :
        tables[s].ncols > 13 =>
            \A i \in 1..Len(tables[s].rows) :
                tables[s].rows[i][ClassLevelPos] # Str("S") =>
                    /\ vals[s].choices[i] = Winner(tables[s].rows[i])
                    /\ vals[s].choices[i] = "kraken2" =>
                           vals[s].frame[i] = SubSeq(tables[s].rows[i], 1, 12)
\* a second row with blast and seqmatch tied above kraken2 was given to blast,
\* after a first row that blast had won
C4_Witness ==
    /\ Len(vals) = 1
    /\ Len(tables[1].rows) = 2
    /\ vals[1].choices[1] = "blast"
    /\ tables[1].rows[2][ClassLevelPos] # Str("S")
    /\ CountOf(tables[1].rows[2], 2) = 3
    /\ CountOf(tables[1].rows[2], 3) = 3
    /\ CountOf(tables[1].rows[2], 1) = 1
    /\ vals[1].choices[2] = "blast"
\* a three-way tie on a second row went to kraken2
C4_WitnessThreeWay ==
    /\ Len(vals) = 1
    /\ Len(tables[1].rows) = 2
    /\ tables[1].rows[2][ClassLevelPos] # Str("S")
    /\ \A c \in 1..3 : CountOf(tables[1].rows[2], c) = 2
    /\ vals[1].choices[2] = "kraken2"

\* C5: every row emitted by choose_classification has exactly 12 fields,
\* whichever branch produced it.
C5_TwelveFields ==
    \A s \in 1..Len(vals) :
        \A i \in 1..Len(vals[s].frame) : Len(vals[s].frame[i]) = NOutCols

\* C6: zero-fill.  In the table joined from two or more samples, a taxid of
\* one sample that another sample lacks keeps its rows, and these hold 0
\* (not a missing value) in the columns of the sample that lacks it; the
\* returned table keeps a row for its name, with 0 in those columns when no
\* taxid of that name is in that sample.
Present(s, key) == \E i \in 1..Len(dfs[s]) : dfs[s][i].taxid = key
TaxidsSeen ==
    UNION {{dfs[s][i].taxid : i \in 1..Len(dfs[s])} : s \in 1..Len(dfs)} \ {NaN}
NamedRows(name) == {i \in 1..Len(all_tax) : all_tax[i] = name}
C6_ZeroFill ==
    /\ Joined =>
          \A key \in TaxidsSeen :
              /\ \E i \in 1..Len(df_final.rows) : df_final.rows[i].taxid = key
              /\ \A s \in 1..Len(dfs) : \A i \in 1..Len(df_final.rows) :
                    (df_final.rows[i].taxid = key /\ ~Present(s, key)) =>
                        /\ df_final.rows[i].v[RelCol(s)] = Zero
                        /\ df_final.rows[i].v[ReadsCol(s)] = Zero
    /\ (Joined /\ Returned) =>
          /\ \A i \in 1..Len(all_tax) :
                \E k \in 1..Len(out.rows) : out.rows[k].taxid = all_tax[i]
          /\ \A k \in 1..Len(out.rows) : \A s \in 1..Len(dfs) :
                (\A i \in NamedRows(out.rows[k].taxid) :
                     /\ df_final.rows[i].taxid \in TaxidsSeen
                     /\ ~Present(s, df_final.rows[i].taxid)) =>
                    /\ out.rows[k].v[RelCol(s)] = Zero
                    /\ out.rows[k].v[ReadsCol(s)] = Zero
\* three samples were merged: some taxid is in the first and not in the
\* second, and the returned row of its name has its reads of the first sample
\* and 0 for the second
C6_Witness ==
    /\ Returned
    /\ Len(dfs) = 3
    /\ \E key \in TaxidsSeen : \E i \in 1..Len(df_final.rows) : \E k \in 1..Len(out.rows) :
          /\ Present(1, key) /\ ~Present(2, key)
          /\ df_final.rows[i].taxid = key
          /\ out.rows[k].taxid = all_tax[i]
          /\ out.rows[k].v[ReadsCol(1)] # Zero
          /\ out.rows[k].v[ReadsCol(2)] = Zero
          /\ out.rows[k].v[RelCol(2)] = Zero

\* C7: the returned table has exactly one row per distinct resolved name,
\* each numeric column of it is the sum of the column over the joined rows of
\* that name, and nothing is lost or counted twice: per sample, the reads of
\* the returned rows sum to the reads of the sample's entries.
C7_GroupSumConserves ==
    Returned =>
        /\ \A k, l \in 1..Len(out.rows) : k # l => out.rows[k].taxid # out.rows[l].taxid
        /\ {out.rows[k].taxid : k \in 1..Len(out.rows)}
               = {all_tax[i] : i \in 1..Len(all_tax)}
        /\ \A k \in 1..Len(out.rows) : \A j \in 1..Len(out.cols) :
               out.rows[k].v[j] =
                   SumVals([i \in 1..Len(all_tax) |->
                               IF all_tax[i] = out.rows[k].taxid
                               THEN FillVal(df_final.rows[i].v[j]) ELSE Zero])
        /\ \A s \in 1..Len(dfs) :
               SumVals([k \in 1..Len(out.rows) |-> out.rows[k].v[ReadsCol(s)]])
                   = SumVals([i \in 1..Len(dfs[s]) |-> dfs[s][i].reads])

\* C8: for any number of samples merge_abundance returns its rows sorted by
\* rel_abundance, descending, rows with equal rel_abundance in their input
\* order (the order of the grouped table, by name).
C8_SortedStable ==
    /\ ~(pc = "crashed" /\ err = "KeyError: rel_abundance")
    /\ Returned =>
          \A j \in ByCols(out) : \A k \in 1..(Len(out.rows) - 1) :
              \/ FGt(out.rows[k].v[j], out.rows[k + 1].v[j])
              \/ /\ FEq(out.rows[k].v[j], out.rows[k + 1].v[j])
                 /\ NameIdx(out.rows[k].taxid) < NameIdx(out.rows[k + 1].taxid)

\* C9: a sample whose total reads_in_cluster is 0 does not crash
\* get_abundance_values, and every entry emitted for it has rel_abundance 0.
C9_ZeroTotalGivesZero ==
    \A s \in 1..Len(vals) :
        vals[s].total = 0 =>
            /\ vals[s].ok
            /\ \A i \in 1..Len(vals[s].df) : vals[s].df[i].rel_abundance = Zero

\* C10: an input with fewer than 12 columns ends the run in a fatal error; no
\* output file is written for it and the run does not complete.
ShortLayout == \E s \in 1..Len(tables) : tables[s].ncols < 12
C10_ShortLayoutIsFatal ==
    ShortLayout =>
        /\ pc # "done"
        /\ \A i \in 1..Len(written) : written[i].file # "rel_abundance"

\* the rel_abundance files written so far, in the order of writing
IsRelFile(w) == w.file = "rel_abundance"
RelFiles == SelectSeq(written, IsRelFile)
Running == pc \in {"values", "join", "resolve"}

\* C11 (as stated): the pipeline runs once per rank in the sequence species,
\* genus, family, order, each run writing the file of its rank: the files
\* written are, in order, those of S, G, F, O, and a completed invocation has
\* written all four.
C11_SpeciesGenusFamilyOrder ==
    /\ Len(RelFiles) <= 4
    /\ \A i \in 1..Len(RelFiles) : RelFiles[i].level = <<"S", "G", "F", "O">>[i]
    /\ pc = "done" => Len(RelFiles) = 4

\* C11 (amended): the pipeline runs at most once per rank, in the sequence
\* genus, species, order, family, one run at a time: the files written are, in
\* order, those of G, S, O, F, each named by the first sample and the rank; the
\* run in progress is the one of the rank after the last file written; a run
\* that raises ends the invocation with the later ranks not run; an invocation
\* that completes has written all four files, once each.
C11_GenusSpeciesOrderFamily ==
    /\ Len(RelFiles) <= 4
    /\ \A i \in 1..Len(RelFiles) :
          /\ RelFiles[i].level = <<"G", "S", "O", "F">>[i]
          /\ RelFiles[i].sample = 1
    /\ Running => /\ Len(RelFiles) < 4
                  /\ Level = <<"G", "S", "O", "F">>[Len(RelFiles) + 1]
    /\ pc = "done" <=> Len(RelFiles) = 4
    /\ pc = "crashed" => Len(RelFiles) < 4
\* all four runs have completed on several samples
C11_Witness == pc = "done" /\ Len(RelFiles) = 4 /\ Len(tables) >= 2
\* a later run raised after earlier runs had written their files
C11_WitnessCrashLater == pc = "crashed" /\ Len(RelFiles) >= 1

\* C12: within one merge_abundance call no taxid is requested twice from the
\* remote service, also when several rows of the joined table share it.
C12_OneLookupPerTaxid ==
    \A i, j \in 1..Len(remote) : i # j => remote[i] # remote[j]

====
